---- MODULE Spec2Model ----
(***************************************************************************)
(* backendPelis: an Express server (index.ts) over a thin MongoDB access   *)
(* layer (libs/mongo.ts).                                                  *)
(*                                                                         *)
(* Two specifications share the variables:                                 *)
(*   Spec     the server process: the start-up Connect, app.listen, and    *)
(*            the four route handlers, interleaved at their awaits;        *)
(*   LibSpec  libs/mongo.ts used as a library: Connect, Close and the      *)
(*            query facade called in any order by a client of the module.  *)
(* FairSpec is Spec with the store answering every query it was sent and   *)
(* every resumed continuation running.                                     *)
(*                                                                         *)
(* Strings the code inspects (titles, id strings, regex options) are       *)
(* sequences of one-character strings; strings it only copies are strings. *)
(* The store and the driver are outside the repository: a store operation  *)
(* either resolves with the result MongoDB documents for it or rejects.    *)
(***************************************************************************)
EXTENDS Integers, Sequences, FiniteSets, TLC

----------------------------------------------------------------------------
(* Bounds of the model *)

\* HTTP requests the server receives in one behaviour
MaxRequests == 2
\* clients of libs/mongo.ts that call Connect in LibSpec
MaxCallers == 2
\* library calls in one behaviour of LibSpec
MaxLibCalls == 4
Requests == 1..MaxRequests
LibCallers == 1..MaxCallers

----------------------------------------------------------------------------
(* JavaScript values *)

\* undefined, as the value of a variable holding a handle; a handle is <<c>>,
\* c the number of the client the driver created it for
Undefined == <<>>
\* undefined, as the value of a request parameter (a sequence of characters)
Absent == <<"undefined">>

\* JavaScript truthiness of a string parameter: undefined and "" are falsy
Truthy(s) == s # Absent /\ s # <<>>

Lower(c) ==
    CASE c = "A" -> "a"
      [] c = "B" -> "b"
      [] c = "C" -> "c"
      [] c = "D" -> "d"
      [] c = "E" -> "e"
      [] c = "F" -> "f"
      [] OTHER -> c

ToLowerCase(s) == [k \in 1..Len(s) |-> Lower(s[k])]

----------------------------------------------------------------------------
(* ObjectId (mongodb): new ObjectId(x) *)

\* length of the hexadecimal form of an ObjectId (24 in the driver, scaled)
ObjectIdHexLen == 2

HexDigits == {"0", "1", "2", "3", "4", "5", "6", "7", "8", "9",
              "a", "b", "c", "d", "e", "f", "A", "B", "C", "D", "E", "F"}

\* new ObjectId(s) accepts s: s is undefined (a fresh id is generated) or a
\* hexadecimal string of the right length; anything else makes it throw
ObjectIdIsValid(s) ==
    \/ s = Absent
    \/ /\ Len(s) = ObjectIdHexLen
       /\ \A k \in 1..Len(s) : s[k] \in HexDigits

Digit == <<"0", "1", "2", "3", "4", "5", "6", "7", "8", "9">>

\* the n-th id the process generates (ObjectId.generate): distinct for distinct n
GenerateObjectId(n) == <<"f", Digit[n + 1]>>

\* new ObjectId(s) for a valid s, where n ids were generated before
NewObjectId(s, n) == IF s = Absent THEN GenerateObjectId(n) ELSE ToLowerCase(s)

\* how many ids new ObjectId(s) generates
Generated(s) == IF s = Absent THEN 1 ELSE 0

----------------------------------------------------------------------------
(* The store: the collections movies and comments of the connected database *)

\* seed data: the movies (never written by this program) and two comments
SeedMovies ==
    << [_id |-> <<"a", "1">>, title |-> <<"A", "b">>, year |-> 1999,
        directors |-> <<"Lana">>, plot |-> "p1"],
       [_id |-> <<"b", "2">>, title |-> <<"b", "a">>, year |-> 2001,
        directors |-> <<"Ridley">>, plot |-> "p2"],
       [_id |-> <<"c", "3">>, title |-> <<"c", ".">>, year |-> 2010,
        directors |-> <<"Sofia", "Greta">>, plot |-> "p3"] >>

SeedComments ==
    << [_id |-> <<"e", "1">>, name |-> "Zoe", email |-> "zoe@x.com",
        movie_id |-> <<"a", "1">>, text |-> "seen it", date |-> 0],
       [_id |-> <<"e", "2">>, name |-> "Zoe", email |-> "zoe@x.com",
        movie_id |-> <<"b", "2">>, text |-> "liked it", date |-> 0] >>

\* $options of the title query, as written in the code
RegexOptions == <<"$", "i">>

\* the store matches without regard to case when the options hold an i
Caseless(options) == \E k \in 1..Len(options) : options[k] = "i"

\* one pattern character against one character: "." is the regular
\* expression that matches any character, any other character matches itself
CharMatches(p, c, caseless) ==
    \/ p = "."
    \/ IF caseless THEN Lower(p) = Lower(c) ELSE p = c

\* $regex: the pattern matches somewhere in s (unanchored search)
RegexSearch(pattern, options, s) ==
    \E i \in 1..(Len(s) - Len(pattern) + 1) :
        \A k \in 1..Len(pattern) :
            CharMatches(pattern[k], s[i + k - 1], Caseless(options))

\* a filter {field: value} or {field: {$regex, $options}} against a document
Matches(doc, query) ==
    IF query.op = "$regex"
    THEN RegexSearch(query.value, query.options, doc[query.field])
    ELSE doc[query.field] = query.value

\* an inclusion projection: the listed fields and, unless excluded, _id;
\* the empty projection {} returns the whole document
Project(doc, projection) ==
    IF projection = {}
    THEN doc
    ELSE [f \in (projection \cup {"_id"}) \cap DOMAIN doc |-> doc[f]]

\* limit and skip as the code tests them: false, 0 are falsy
LimitDefault == <<"bool", FALSE>>
LimitTrue == <<"bool", TRUE>>
LimitIsSet(limit) == IF limit[1] = "bool" THEN limit[2] ELSE limit[2] # 0
\* (limit == true) ? 1 : limit
LimitCount(limit) == IF limit[1] = "bool" \/ limit[2] = 1 THEN 1 ELSE limit[2]
SkipDefault == 0

Min(a, b) == IF a < b THEN a ELSE b

\* a cursor that is always limited to one document
FindCursor_limitOne(docs, query, projection, limit, skip) ==
    LET matched == SelectSeq(docs, LAMBDA d : Matches(d, query))
    IN  [k \in 1..Min(1, Len(matched)) |-> Project(matched[k], projection)]

\* FindCursor followed by cursor.toArray(): the documents of docs that
\* match, in the collection's order, projected, after skip, up to limit
FindCursor(docs, query, projection, limit, skip) ==
    LET matched == SelectSeq(docs, LAMBDA d : Matches(d, query))
        projected == [k \in 1..Len(matched) |-> Project(matched[k], projection)]
        skipped == IF skip # 0
                   THEN SubSeq(projected, skip + 1, Len(projected))
                   ELSE projected
    IN  IF LimitIsSet(limit)
        THEN SubSeq(skipped, 1, Min(LimitCount(limit), Len(skipped)))
        ELSE skipped

\* a value a handler sends or a store operation yields
Value(kind, val) == [kind |-> kind, val |-> val]
NoValue == Value("none", <<>>)
UndefinedValue == Value("undefined", <<>>)

\* Find: the array, or its first element when limit === true
Find(docs, query, projection, limit, skip) ==
    LET result == FindCursor(docs, query, projection, limit, skip)
    IN  IF limit[1] = "bool" /\ limit[2]
        THEN IF result = <<>> THEN UndefinedValue ELSE Value("object", result[1])
        ELSE Value("array", result)

\* an insert that is sent twice
InsertOneApply_twice(docs, document) == Append(Append(docs, document), document)

\* collection.insertOne(document): the document is appended
InsertOneApply(docs, document) == Append(docs, document)

\* what insertOne resolves with
InsertOneResult(document) ==
    Value("object", [acknowledged |-> TRUE, insertedId |-> document._id])

----------------------------------------------------------------------------
(* State *)

VARIABLES
    DB,             \* libs/mongo.ts: let DB
    clientDB,       \* libs/mongo.ts: let clientDB
    connecting,     \* the Connect calls waiting for the driver's callback
    connectCalls,   \* driver: MongoClient.connect invocations
    clients,        \* driver: clients created
    openClients,    \* driver: clients connected and not closed
    closeCalls,     \* driver: client.close invocations
    storeAccesses,  \* driver: operations sent to the store
    movies,         \* store: the movies collection, in natural order
    comments,       \* store: the comments collection, in natural order
    nextOid,        \* ObjectIds generated by the process so far
    startup,        \* index.ts: the start-up Connect promise
    listening,      \* index.ts: app.listen was called
    pc,             \* per request: where its handler is
    input,          \* per request: route and parameters
    pending,        \* per request: the store operation it awaits
    reply,          \* per request: the store's answer
    resp,           \* per request: the body passed to response.send
    caught,         \* per request: the catch around Connect was entered
    connState,      \* per library caller: its last Connect call
    lastCall,       \* LibSpec: the last library call and its outcome
    nCalls          \* LibSpec: library calls made

libVars == <<DB, clientDB, connecting>>
driverVars == <<connectCalls, clients, openClients, closeCalls, storeAccesses>>
storeVars == <<movies, comments>>
serverVars == <<startup, listening>>
reqVars == <<pc, input, pending, reply, resp, caught>>
clientVars == <<connState, lastCall, nCalls>>
vars == <<DB, clientDB, connecting, connectCalls, clients, openClients,
          closeCalls, storeAccesses, movies, comments, nextOid,
          startup, listening, pc, input, pending, reply, resp, caught,
          connState, lastCall, nCalls>>

NoInput == [route |-> "none", title |-> Absent, movieId |-> Absent,
            name |-> "", email |-> "", text |-> ""]
NoPending == [op |-> "none"]
NoReply == [ok |-> FALSE, value |-> NoValue]
NoCall == [op |-> "none", caller |-> 0, result |-> "none"]

Init ==
    /\ DB = Undefined
    /\ clientDB = Undefined
    /\ connecting = {}
    /\ connectCalls = 0
    /\ clients = 0
    /\ openClients = {}
    /\ closeCalls = 0
    /\ storeAccesses = 0
    /\ movies = SeedMovies
    /\ comments = SeedComments
    /\ nextOid = 0
    /\ startup = "init"
    /\ listening = FALSE
    /\ pc = [r \in Requests |-> "idle"]
    /\ input = [r \in Requests |-> NoInput]
    /\ pending = [r \in Requests |-> NoPending]
    /\ reply = [r \in Requests |-> NoReply]
    /\ resp = [r \in Requests |-> NoValue]
    /\ caught = [r \in Requests |-> FALSE]
    /\ connState = [c \in LibCallers |-> "none"]
    /\ lastCall = NoCall
    /\ nCalls = 0

----------------------------------------------------------------------------
(* libs/mongo.ts *)

\* Connect without its first line
ConnectReturnsEarly_unguarded == FALSE

\* Connect: if (DB) return;
ConnectReturnsEarly == DB # Undefined

\* what the driver's connect callback is called with: an error; neither an
\* error nor a client; a client whose db() throws; a client
DriverOutcomes == {"err", "noclient", "dbthrows", "ok"}

\* the callback got a client (clientDB = client is reached)
GivesClient(outcome) == outcome \in {"dbthrows", "ok"}

\* the callback reaches resolve(true)
ConnectResolves(outcome) == outcome = "ok"

\* clientDB and DB after the callback ran with client number c
CallbackClientDB(outcome, c) == IF GivesClient(outcome) THEN <<c>> ELSE clientDB
CallbackDB(outcome, c) == IF ConnectResolves(outcome) THEN <<c>> ELSE DB

\* Close: if (!clientDB) return Promise.reject("Not connected")
CloseRejects == clientDB = Undefined

\* Collection: if (!DB) return Promise.reject("Not connected")
CollectionRejects(db) == db = Undefined

\* the exported query operations
FacadeOps == {"Collection", "Find", "FindCursor", "Distinct", "CollectionExist",
              "InsertOne", "InsertMany", "DeleteOne", "DeleteMany", "UpdateOne",
              "UpdateMany", "Count", "Aggregate", "Aggregate_cursor",
              "CreateIndex", "Stats"}

\* how a facade operation ends before it reaches the driver, or "forwarded":
\* every operation but CollectionExist awaits Collection first, and
\* CollectionExist dereferences DB unguarded
FacadeGuard(op) ==
    IF op = "CollectionExist"
    THEN IF DB = Undefined THEN "TypeError" ELSE "forwarded"
    ELSE IF CollectionRejects(DB) THEN "Not connected" ELSE "forwarded"

\* the operations whose driver call contacts the store: DB.collection,
\* collection.find and collection.aggregate only build a handle or a cursor
AccessesStore(op) == op \notin {"Collection", "FindCursor", "Aggregate_cursor"}

----------------------------------------------------------------------------
(* index.ts: the route handlers *)

\* the requests a client may send: titles that are absent, empty, in the
\* other letter case, longer than one character, a regular expression; ids
\* that are absent, of a movie (in either letter case), of no movie, not
\* hexadecimal
TitleInputs == {Absent, <<>>, <<"B">>, <<"b", "A">>, <<".">>}
DetailsIdInputs == {Absent, <<"A", "1">>, <<"d", "4">>, <<"z", "z">>}
CommentsIdInputs == {Absent, <<"a", "1">>, <<"d", "4">>, <<"z", "z">>}
AddCommentIdInputs == {Absent, <<"A", "1">>, <<"z", "z">>}

RequestInputs ==
    {[NoInput EXCEPT !.route = "getMoviesByTitle", !.title = t] :
        t \in TitleInputs}
    \cup {[NoInput EXCEPT !.route = "details", !.movieId = m] :
        m \in DetailsIdInputs}
    \cup {[NoInput EXCEPT !.route = "comments", !.movieId = m] :
        m \in CommentsIdInputs}
    \cup {[NoInput EXCEPT !.route = "addComment", !.movieId = m,
                          !.name = "Ana", !.email = "ana@x.com",
                          !.text = "great film"] :
        m \in AddCommentIdInputs}

\* what new Date() may read
Dates == {1, 2}

FindOp(collectionName, query, projection) ==
    [op |-> "find", collection |-> collectionName, query |-> query,
     projection |-> projection, limit |-> LimitDefault, skip |-> SkipDefault]

InsertOneOp(collectionName, document) ==
    [op |-> "insertOne", collection |-> collectionName, document |-> document]

Eq(field, value) ==
    [field |-> field, op |-> "$eq", value |-> value, options |-> <<>>]

\* the handler's outcome up to its first store operation: it awaits the
\* operation, or it threw. The handlers are async functions with no try
\* around their bodies and are registered with app.get/app.post directly:
\* Express (4.x, the release this code was written against) does not
\* observe the promise a handler returns, so a handler that throws or whose
\* await rejects ends with response.send never called ("faulted")
Awaiting(op, oids) == [pc |-> "querying", pending |-> op, oids |-> oids]
Throws(oids) == [pc |-> "faulted", pending |-> NoPending, oids |-> oids]

\* obtenerPeliculasPorTitulo after its Connect
obtenerPeliculasPorTitulo(title) ==
    Awaiting(FindOp("movies",
                    [field |-> "title", op |-> "$regex", value |-> title,
                     options |-> RegexOptions],
                    {"title", "_id"}), 0)

\* obtenerDetalle after its Connect; n ids were generated before
obtenerDetalle(movieId, n) ==
    IF ~ObjectIdIsValid(movieId)
    THEN Throws(0)
    ELSE Awaiting(FindOp("movies", Eq("_id", NewObjectId(movieId, n)),
                         {"title", "year", "directors", "plot"}),
                  Generated(movieId))

\* obtenerComentarios after its Connect
obtenerComentarios(movieId, n) ==
    IF ~ObjectIdIsValid(movieId)
    THEN Throws(0)
    ELSE Awaiting(FindOp("comments", Eq("movie_id", NewObjectId(movieId, n)),
                         {"name", "email", "text", "date"}),
                  Generated(movieId))

\* insertarComentarios with movie_id: new ObjectId() in place of
\* new ObjectId(movieId)
insertarComentarios_newMovieId(nameLlega, emailLlega, movieId, textLlega, n, now) ==
    Awaiting(InsertOneOp("comments",
                 [_id |-> GenerateObjectId(n),
                  name |-> nameLlega,
                  email |-> emailLlega,
                  movie_id |-> GenerateObjectId(n + 1),
                  text |-> textLlega,
                  date |-> now]),
             2)

\* insertarComentarios after its Connect: _id is generated first, then
\* movie_id is parsed, then the document is handed to InsertOne
insertarComentarios(nameLlega, emailLlega, movieId, textLlega, n, now) ==
    IF ~ObjectIdIsValid(movieId)
    THEN Throws(1)
    ELSE Awaiting(InsertOneOp("comments",
                      [_id |-> GenerateObjectId(n),
                       name |-> nameLlega,
                       email |-> emailLlega,
                       movie_id |-> NewObjectId(movieId, n + 1),
                       text |-> textLlega,
                       date |-> now]),
                  1 + Generated(movieId))

\* the handler of in.route from the end of its Connect to its first await
\* on the store: Find and InsertOne await Collection, which rejects without
\* a database handle, and no handler catches that
HandlerBody(in, db, n, now) ==
    LET body ==
            CASE in.route = "getMoviesByTitle" ->
                    obtenerPeliculasPorTitulo(in.title)
              [] in.route = "details" -> obtenerDetalle(in.movieId, n)
              [] in.route = "comments" -> obtenerComentarios(in.movieId, n)
              [] OTHER -> insertarComentarios(in.name, in.email, in.movieId,
                                              in.text, n, now)
    IN  IF body.pc = "querying" /\ CollectionRejects(db)
        THEN Throws(body.oids)
        ELSE body

\* request r runs from the end of its Connect (whose catch was entered or
\* not) to its next await, at time now
RunHandler(r, in, db, wasCaught, now) ==
    LET out == HandlerBody(in, db, nextOid, now)
    IN  /\ pc' = [pc EXCEPT ![r] = out.pc]
        /\ pending' = [pending EXCEPT ![r] = out.pending]
        /\ caught' = [caught EXCEPT ![r] = wasCaught]
        /\ nextOid' = nextOid + out.oids

\* app.get("/getMoviesByTitle"): if (request.query.title) ... else "Error"
TitleIsMissing(in) == in.route = "getMoviesByTitle" /\ ~Truthy(in.title)

\* Express calls the handler of an arriving request, which runs to its
\* first await that needs the driver; requests are numbered as they arrive,
\* and new Date() in the handler reads now
Request(r, in, now) ==
    /\ listening
    /\ pc[r] = "idle"
    /\ \A q \in 1..(r - 1) : pc[q] # "idle"
    /\ input' = [input EXCEPT ![r] = in]
    /\ IF TitleIsMissing(in)
       THEN /\ resp' = [resp EXCEPT ![r] = Value("string", "Error")]
            /\ pc' = [pc EXCEPT ![r] = "sent"]
            /\ UNCHANGED <<pending, caught, nextOid, connecting, connectCalls>>
       ELSE IF ConnectReturnsEarly
       THEN /\ RunHandler(r, in, DB, FALSE, now)
            /\ UNCHANGED <<resp, connecting, connectCalls>>
       ELSE /\ connectCalls' = connectCalls + 1
            /\ connecting' = connecting \cup {<<"req", r>>}
            /\ pc' = [pc EXCEPT ![r] = "connecting"]
            /\ UNCHANGED <<resp, pending, caught, nextOid>>
    /\ UNCHANGED <<DB, clientDB, clients, openClients, closeCalls,
                   storeAccesses, storeVars, serverVars, reply, clientVars>>

CollectionDocs(collectionName) ==
    IF collectionName = "movies" THEN movies ELSE comments

\* the store runs the operation request r awaits and answers: it resolves
\* with the result, or rejects and changes nothing
StoreExec(r, ok) ==
    /\ pc[r] = "querying"
    /\ pc' = [pc EXCEPT ![r] = "replied"]
    /\ storeAccesses' = storeAccesses + 1
    /\ LET p == pending[r]
       IN  IF ~ok
           THEN /\ reply' = [reply EXCEPT ![r] = NoReply]
                /\ UNCHANGED storeVars
           ELSE IF p.op = "find"
           THEN /\ reply' = [reply EXCEPT ![r] =
                        [ok |-> TRUE,
                         value |-> Find(CollectionDocs(p.collection), p.query,
                                        p.projection, p.limit, p.skip)]]
                /\ UNCHANGED storeVars
           ELSE /\ comments' = InsertOneApply(comments, p.document)
                /\ reply' = [reply EXCEPT ![r] =
                        [ok |-> TRUE, value |-> InsertOneResult(p.document)]]
                /\ UNCHANGED movies
    /\ UNCHANGED <<libVars, connectCalls, clients, openClients, closeCalls,
                   nextOid, serverVars, input, pending, resp, caught,
                   clientVars>>

\* obtenerDetalle returning respuesta instead of respuesta[0]
RouteResponse_whole(route, value) == value

\* what the route sends for the value its query function returned:
\* obtenerDetalle returns respuesta[0], the others the result itself
RouteResponse(route, value) ==
    IF route = "details"
    THEN IF value.val = <<>>
         THEN UndefinedValue
         ELSE Value("object", value.val[1])
    ELSE value

\* the handler resumes with the store's answer: response.send(respuesta),
\* or the rejection leaves the handler with nothing sent
HandlerResume(r) ==
    /\ pc[r] = "replied"
    /\ IF reply[r].ok
       THEN /\ resp' = [resp EXCEPT ![r] =
                    RouteResponse(input[r].route, reply[r].value)]
            /\ pc' = [pc EXCEPT ![r] = "sent"]
       ELSE /\ pc' = [pc EXCEPT ![r] = "faulted"]
            /\ UNCHANGED resp
    /\ UNCHANGED <<libVars, driverVars, storeVars, nextOid, serverVars,
                   input, pending, reply, caught, clientVars>>

----------------------------------------------------------------------------
(* index.ts: start-up, and the driver's connect callback *)

StartupCaller == <<"startup", 0>>

\* app.listen called whatever became of the Connect promise (.finally)
ListensAfter_finally(resolved) == TRUE

\* mongo.Connect(config.mongo).then(() => app.listen(...)): the server
\* listens when the promise is fulfilled, and only then
ListensAfter(resolved) == resolved

\* the module body of index.ts calls Connect
StartupConnect ==
    /\ startup = "init"
    /\ IF ConnectReturnsEarly
       THEN /\ startup' = "resolved"
            /\ listening' = ListensAfter(TRUE)
            /\ UNCHANGED <<connecting, connectCalls>>
       ELSE /\ startup' = "connecting"
            /\ connectCalls' = connectCalls + 1
            /\ connecting' = connecting \cup {StartupCaller}
            /\ UNCHANGED listening
    /\ UNCHANGED <<DB, clientDB, clients, openClients, closeCalls,
                   storeAccesses, storeVars, nextOid, reqVars,
                   clientVars>>

\* the driver calls the callback of a pending Connect: the callback sets the
\* handles and settles the promise, and the caller's continuation runs (a
\* handler's new Date() reads now)
DriverConnectCallback(who, outcome, now) ==
    /\ who \in connecting
    /\ connecting' = connecting \ {who}
    /\ clients' = IF GivesClient(outcome) THEN clients + 1 ELSE clients
    /\ openClients' = IF GivesClient(outcome)
                      THEN openClients \cup {clients + 1}
                      ELSE openClients
    /\ clientDB' = CallbackClientDB(outcome, clients + 1)
    /\ DB' = CallbackDB(outcome, clients + 1)
    /\ IF who[1] = "startup"
       THEN /\ startup' = IF ConnectResolves(outcome)
                          THEN "resolved" ELSE "rejected"
            /\ listening' = ListensAfter(ConnectResolves(outcome))
            /\ UNCHANGED <<pc, pending, caught, nextOid, connState>>
       ELSE IF who[1] = "req"
       THEN /\ RunHandler(who[2], input[who[2]],
                          CallbackDB(outcome, clients + 1),
                          ~ConnectResolves(outcome), now)
            /\ UNCHANGED <<serverVars, connState>>
       ELSE /\ connState' = [connState EXCEPT ![who[2]] =
                    IF ConnectResolves(outcome) THEN "resolved" ELSE "rejected"]
            /\ UNCHANGED <<serverVars, pc, pending, caught, nextOid>>
    /\ UNCHANGED <<connectCalls, closeCalls, storeAccesses, storeVars,
                   input, reply, resp, lastCall, nCalls>>

----------------------------------------------------------------------------
(* libs/mongo.ts called by a client of the module *)

Call(op, caller, result) == [op |-> op, caller |-> caller, result |-> result]

\* caller c calls Connect(conf)
LibConnect(c) ==
    /\ nCalls < MaxLibCalls
    /\ connState[c] # "pending"
    /\ nCalls' = nCalls + 1
    /\ IF ConnectReturnsEarly
       THEN /\ connState' = [connState EXCEPT ![c] = "returned"]
            /\ lastCall' = Call("Connect", c, "returned")
            /\ UNCHANGED <<connecting, connectCalls>>
       ELSE /\ connState' = [connState EXCEPT ![c] = "pending"]
            /\ lastCall' = Call("Connect", c, "pending")
            /\ connectCalls' = connectCalls + 1
            /\ connecting' = connecting \cup {<<"lib", c>>}
    /\ UNCHANGED <<DB, clientDB, clients, openClients, closeCalls,
                   storeAccesses, storeVars, nextOid, serverVars,
                   reqVars>>

\* Close()
LibClose ==
    /\ nCalls < MaxLibCalls
    /\ nCalls' = nCalls + 1
    /\ IF CloseRejects
       THEN /\ lastCall' = Call("Close", 0, "Not connected")
            /\ UNCHANGED <<closeCalls, openClients>>
       ELSE /\ lastCall' = Call("Close", 0, "resolved")
            /\ closeCalls' = closeCalls + 1
            /\ openClients' = openClients \ {clientDB[1]}
    /\ UNCHANGED <<libVars, connectCalls, clients, storeAccesses, storeVars,
                   nextOid, serverVars, reqVars, connState>>

\* a facade operation: it ends at its guard, or is forwarded to the driver,
\* whose call resolves or fails with the driver's own error
LibCall(op, ok) ==
    /\ nCalls < MaxLibCalls
    /\ nCalls' = nCalls + 1
    /\ IF FacadeGuard(op) # "forwarded"
       THEN /\ lastCall' = Call(op, 0, FacadeGuard(op))
            /\ UNCHANGED storeAccesses
       ELSE /\ lastCall' = Call(op, 0, IF ok \/ ~AccessesStore(op)
                                       THEN "resolved" ELSE "driver error")
            /\ storeAccesses' = IF AccessesStore(op)
                                THEN storeAccesses + 1 ELSE storeAccesses
    /\ UNCHANGED <<libVars, connectCalls, clients, openClients, closeCalls,
                   storeVars, nextOid, serverVars, reqVars, connState>>

----------------------------------------------------------------------------
(* Specifications *)

Next ==
    \/ StartupConnect
    \/ \E outcome \in DriverOutcomes :
          DriverConnectCallback(StartupCaller, outcome, 1)
    \/ \E r \in Requests, in \in RequestInputs, now \in Dates :
          Request(r, in, now)
    \/ \E r \in Requests, ok \in BOOLEAN : StoreExec(r, ok)
    \/ \E r \in Requests : HandlerResume(r)

Spec == Init /\ [][Next]_vars

\* the store answers every operation it was sent, and a continuation whose
\* promise settled runs
FairSpec ==
    /\ Spec
    /\ \A r \in Requests :
          /\ WF_vars(\E ok \in BOOLEAN : StoreExec(r, ok))
          /\ WF_vars(HandlerResume(r))

LibNext ==
    \/ \E c \in LibCallers : LibConnect(c)
    \/ \E c \in LibCallers, outcome \in DriverOutcomes :
          DriverConnectCallback(<<"lib", c>>, outcome, 1)
    \/ LibClose
    \/ \E op \in FacadeOps, ok \in BOOLEAN : LibCall(op, ok)

LibSpec == Init /\ [][LibNext]_vars

----------------------------------------------------------------------------
(* Vocabulary of the properties *)

Range(seq) == {seq[k] : k \in 1..Len(seq)}
Count(seq, d) == Cardinality({k \in 1..Len(seq) : seq[k] = d})

\* the same documents, each as many times, in any order
SameDocs(a, b) ==
    /\ Len(a) = Len(b)
    /\ \A d \in Range(a) \cup Range(b) : Count(a, d) = Count(b, d)

\* document d cut down to exactly the given fields
Reduce(d, fields) == [f \in fields |-> d[f]]
ReduceAll(docs, fields) == [k \in 1..Len(docs) |-> Reduce(docs[k], fields)]

\* the id string s (given, well formed) denotes the stored id
Denotes(s, id) == s # Absent /\ ObjectIdIsValid(s) /\ ToLowerCase(s) = id

\* title contains t as a substring, letter case disregarded
ContainsIgnoringCase(title, t) ==
    \E i \in 1..(Len(title) - Len(t) + 1) :
        \A k \in 1..Len(t) : Lower(t[k]) = Lower(title[i + k - 1])

\* a library call is made in this step
LibraryCallOf(ops) == nCalls' = nCalls + 1 /\ lastCall'.op \in ops

\* no client of the driver is connected
NoActiveConnection == openClients = {}

\* in this step the store answers request q with a result
Answered(q, route) ==
    /\ input[q].route = route
    /\ pc[q] = "querying"
    /\ pc'[q] = "replied"
    /\ reply'[q].ok

----------------------------------------------------------------------------
(* C1: once a Connect call of a caller has resolved, the caller's next     *)
(* Connect call returns at once: it does not invoke the driver's connect   *)
(* and leaves clientDB and DB as they are.                                 *)
C1_ConnectIdempotent ==
    [][\A c \in LibCallers :
         (/\ connState[c] = "resolved"
          /\ LibraryCallOf({"Connect"})
          /\ lastCall'.caller = c)
         => /\ lastCall'.result = "returned"
            /\ connState'[c] = "returned"
            /\ connectCalls' = connectCalls
            /\ connecting' = connecting
            /\ DB' = DB
            /\ clientDB' = clientDB]_vars

\* a second Connect returned early after the only driver connect succeeded
C1_Witness ==
    /\ lastCall.op = "Connect"
    /\ lastCall.result = "returned"
    /\ connectCalls = 1
    /\ clients = 1
    /\ DB = <<1>>
    /\ clientDB = <<1>>

----------------------------------------------------------------------------
(* C6: every facade operation called while no connection is active ends    *)
(* with "Not connected" and sends nothing to the store.                    *)
C6_FacadeNotConnected ==
    [][(LibraryCallOf(FacadeOps) /\ NoActiveConnection)
         => /\ lastCall'.result = "Not connected"
            /\ storeAccesses' = storeAccesses]_vars

----------------------------------------------------------------------------
(* C7: Close closes the client it holds, and a Close called while no       *)
(* connection is active ends with "Not connected" without calling the      *)
(* driver's close.                                                         *)
C7_CloseNotConnected ==
    [][LibraryCallOf({"Close"})
         => /\ clientDB # Undefined => clientDB[1] \notin openClients'
            /\ NoActiveConnection
                 => /\ lastCall'.result = "Not connected"
                    /\ closeCalls' = closeCalls]_vars

----------------------------------------------------------------------------
(* C10: the server listens only once the start-up Connect has resolved and *)
(* never after it was rejected; whenever a handler has run, the database   *)
(* handle is set, the handler's own Connect did not invoke the driver (the *)
(* start-up call is the only one), and its catch was not entered.          *)
C10_StartupOrdering ==
    /\ listening => startup = "resolved"
    /\ startup = "rejected" => ~listening
    /\ connectCalls <= 1
    /\ \A r \in Requests :
          pc[r] # "idle"
            => /\ DB # Undefined
               /\ pc[r] # "connecting"
               /\ <<"req", r>> \notin connecting
               /\ ~caught[r]

\* a handler went through its Connect and its query and sent its response
C10_Witness ==
    \E r \in Requests :
        /\ pc[r] = "sent"
        /\ input[r].route = "details"
        /\ connectCalls = 1

----------------------------------------------------------------------------
(* C9: no step changes the movies collection or changes or removes a       *)
(* stored comment; a step adds at most one comment and only as the insert  *)
(* of an add-comment request with a well-formed movieId; and the comments  *)
(* added are exactly one per add-comment request whose insert the store    *)
(* performed.                                                              *)
InsertedBy(r) ==
    /\ input[r].route = "addComment"
    /\ \/ pc[r] = "sent"
       \/ pc[r] = "replied" /\ reply[r].ok

C9_Frame ==
    /\ [](Len(comments) =
            Len(SeedComments) + Cardinality({r \in Requests : InsertedBy(r)}))
    /\ [][/\ movies' = movies
          /\ Len(comments') \in {Len(comments), Len(comments) + 1}
          /\ SubSeq(comments', 1, Len(comments)) = comments
          /\ comments' # comments
               => \E r \in Requests :
                     /\ Answered(r, "addComment")
                     /\ ObjectIdIsValid(input[r].movieId)
                     /\ \A q \in Requests \ {r} : pc'[q] = pc[q]]_vars

\* one add-comment request inserted its comment, another one with a
\* malformed movieId ended without inserting
C9_Witness ==
    \E r, q \in Requests :
        /\ input[r].route = "addComment" /\ pc[r] = "sent"
        /\ input[q].route = "addComment" /\ pc[q] = "faulted"
        /\ ~ObjectIdIsValid(input[q].movieId)
        /\ Len(comments) = Len(SeedComments) + 1

----------------------------------------------------------------------------
(* C5: movie-details answers the id of an existing movie with one object   *)
(* that carries that movie's title, year, directors and plot, and a        *)
(* well-formed id of no movie, or no movieId at all, with undefined.       *)
C5_Details ==
    \A r \in Requests :
        (input[r].route = "details" /\ pc[r] = "sent")
          => IF \E k \in 1..Len(movies) : Denotes(input[r].movieId, movies[k]._id)
             THEN /\ resp[r].kind = "object"
                  /\ \E k \in 1..Len(movies) :
                        /\ Denotes(input[r].movieId, movies[k]._id)
                        /\ {"title", "year", "directors", "plot"}
                             \subseteq DOMAIN resp[r].val
                        /\ \A f \in {"title", "year", "directors", "plot"} :
                              resp[r].val[f] = movies[k][f]
             ELSE resp[r] = UndefinedValue

\* details were sent for an id given in upper case, and undefined for none
C5_Witness ==
    \E r, q \in Requests :
        /\ input[r].route = "details" /\ pc[r] = "sent"
        /\ input[r].movieId = <<"A", "1">>
        /\ resp[r].kind = "object"
        /\ input[q].route = "details" /\ pc[q] = "sent"
        /\ input[q].movieId = Absent
        /\ resp[q] = UndefinedValue

----------------------------------------------------------------------------
(* C3: movies-by-title called with any title string t, the empty string    *)
(* included, sends exactly the movies whose title contains t as a          *)
(* substring, letter case disregarded, each as its id and title.           *)
C3_TitleSearch ==
    \A r \in Requests :
        (/\ input[r].route = "getMoviesByTitle"
         /\ input[r].title # Absent
         /\ pc[r] = "sent")
          => /\ resp[r].kind = "array"
             /\ Range(resp[r].val) =
                  {Reduce(movies[k], {"_id", "title"}) :
                     k \in {j \in 1..Len(movies) :
                              ContainsIgnoringCase(movies[j].title,
                                                   input[r].title)}}

----------------------------------------------------------------------------
(* C8: every request a route accepted is eventually sent a response.       *)
C8_EveryRequestAnswered ==
    \A r \in Requests : (pc[r] # "idle") ~> (pc[r] = "sent")

\* a handler that ended without sending never sends: nothing resumes it
FaultedIsFinal ==
    [][\A r \in Requests : pc[r] = "faulted" => pc'[r] = "faulted"]_vars

----------------------------------------------------------------------------
(* C4: comments-by-movie                                                   *)
CommentFields == {"name", "email", "text", "date"}

\* the stored comments of the movie the id string denotes, in stored order
CommentsOf(movieId) ==
    SelectSeq(comments, LAMBDA c : Denotes(movieId, c.movie_id))

\* in a step in which the store answers a comments-by-movie request for a
\* given id, the answer holds the comments stored for that movie at that
\* moment, all of them and no other, each cut down to the given fields
CommentsAnswer(fields) ==
    \A q \in Requests :
        (Answered(q, "comments") /\ input[q].movieId # Absent)
          => /\ reply'[q].value.kind = "array"
             /\ SameDocs(reply'[q].value.val,
                         ReduceAll(CommentsOf(input[q].movieId), fields))

\* what the comments-by-movie route sends is the store's answer
CommentsSentAsAnswered ==
    \A q \in Requests :
        (input[q].route = "comments" /\ pc[q] = "sent")
          => resp[q] = reply[q].value

(* C4 as claimed: comments-by-movie(id), id well formed, returns all and   *)
(* only the stored comments whose movie_id is id, each reduced to name,    *)
(* email, text and date.                                                   *)
C4_CommentsReducedToFour ==
    /\ [][CommentsAnswer(CommentFields)]_vars
    /\ []CommentsSentAsAnswered

(* C4 as amended: comments-by-movie(id), id well formed, returns all and   *)
(* only the stored comments whose movie_id is id, none missing, none       *)
(* extra, no limit or skip applied, each reduced to _id, name, email, text *)
(* and date.                                                               *)
C4_CommentsWithId ==
    /\ [][CommentsAnswer(CommentFields \cup {"_id"})]_vars
    /\ []CommentsSentAsAnswered

\* a request got both the seeded comment of its movie and one added since
C4_Witness ==
    \E q \in Requests :
        /\ input[q].route = "comments"
        /\ pc[q] = "sent"
        /\ input[q].movieId = <<"a", "1">>
        /\ Len(resp[q].val) = 2

----------------------------------------------------------------------------
(* C2: the comments have pairwise distinct ids; once add-comment with a    *)
(* well-formed movieId has sent its response, the comments collection      *)
(* holds a comment with the id the response names, that movie id and the   *)
(* given name, email and text; and whenever the store answers a            *)
(* comments-by-movie request for that movie afterwards, the answer, which  *)
(* is what the route sends, holds that comment.                            *)
IsCommentOf(c, r) ==
    /\ c._id = resp[r].val.insertedId
    /\ c.name = input[r].name
    /\ c.email = input[r].email
    /\ c.text = input[r].text

AddCommentSent(r) ==
    /\ input[r].route = "addComment"
    /\ input[r].movieId # Absent
    /\ pc[r] = "sent"

C2_ReadYourWrite ==
    /\ [](\A i, j \in 1..Len(comments) :
            i # j => comments[i]._id # comments[j]._id)
    /\ [](\A r \in Requests :
            AddCommentSent(r)
              => /\ resp[r].kind = "object"
                 /\ \E k \in 1..Len(comments) :
                       /\ IsCommentOf(comments[k], r)
                       /\ Denotes(input[r].movieId, comments[k].movie_id)
                       /\ comments[k].date \in Dates)
    /\ [][\A q, r \in Requests :
            (/\ Answered(q, "comments")
             /\ AddCommentSent(r)
             /\ input[q].movieId # Absent
             /\ ToLowerCase(input[q].movieId) = ToLowerCase(input[r].movieId))
              => \E k \in 1..Len(reply'[q].value.val) :
                    IsCommentOf(reply'[q].value.val[k], r)]_vars
    /\ [](\A q \in Requests :
            (input[q].route = "comments" /\ pc[q] = "sent")
              => resp[q].val = reply[q].value.val)

\* add-comment was answered, and a later comments-by-movie request for the
\* same movie was sent the new comment
C2_Witness ==
    \E q, r \in Requests :
        /\ AddCommentSent(r)
        /\ input[q].route = "comments"
        /\ pc[q] = "sent"
        /\ \E k \in 1..Len(resp[q].val) : IsCommentOf(resp[q].val[k], r)

====
